---- MODULE Spec2Model ----
(***************************************************************************)
(* Multi-GPU batch translation, examples/nlp/machine_translation/          *)
(* translate_ddp.py: main() spawns one translate(rank, world_size, args)   *)
(* process per device; each worker joins the process group, loads the      *)
(* model, iterates its shard and writes rank<r>/originals.txt and          *)
(* rank<r>/translations.txt.                                               *)
(*                                                                         *)
(* Library objects are modelled by the part of their behaviour the script  *)
(* relies on: init_process_group returns once world_size processes have    *)
(* called it, destroy_process_group releases the caller's group locally,   *)
(* the model's forward returns one hypothesis per source sentence, and      *)
(* mp.spawn(join=True) returns when every worker has exited normally and   *)
(* terminates the others and raises when one worker has failed.            *)
(***************************************************************************)
EXTENDS Integers, Sequences, FiniteSets, Bags, TLC

\* ---------------------------------------------------------------- bounds
MaxWorld == 2
MaxBatches == 2
MaxBatchSize == 2
LogBatches == 101

\* ------------------------------------------------------------- constants
LogEvery == 100

Unbound == <<>>
Closed == <<>>
AllRanks == 0..(MaxWorld - 1)
Langs == {"", "en", "zh", "ja"}
ModelPaths == {<<"model", ".nemo">>, <<"model", ".ckpt">>, <<"model", ".pt">>}

VARIABLES
    main,                      \* position of main(): "start", "joining", "returned", "raised"
    world_size,                \* torch.cuda.device_count()
    args,                      \* the parsed command line
    shard_limit,               \* per rank: the most batches its (finite) shard can hold
    pc,                        \* per rank: position of translate()
    group,                     \* ranks that have called init_process_group and not released it
    model,                     \* per rank: the local variable model
    dataset,                   \* per rank: the local variable dataset
    dirs,                      \* directories that exist
    files,                     \* path -> bag of the lines written to it
    openedBy,                  \* path -> ranks that have opened it for writing
    of,                        \* per rank: path of the open originals handle
    tf,                        \* per rank: path of the open translations handle
    batch_idx,                 \* per rank: number of batches enumerate(loader) has yielded
    num_translated_sentences,  \* per rank
    unpacked,                  \* per rank: how many tensors the last batch was unpacked into
    src_ids,                   \* per rank: the current source tensor
    call,                      \* per rank: the arguments of the last ddp_model call
    translations,              \* per rank: the current hypotheses tensor
    target_detokenizer,        \* per rank
    source_detokenizer,        \* per rank
    sp_detokenizer,            \* per rank
    logs,                      \* progress logs emitted
    error                      \* per rank: the exception that ended the worker

vars == <<main, world_size, args, shard_limit, pc, group, model, dataset, dirs, files,
          openedBy, of, tf, batch_idx, num_translated_sentences, unpacked, src_ids, call,
          translations, target_detokenizer, source_detokenizer, sp_detokenizer, logs, error>>

Ranks == 0..(world_size - 1)

\* ---------------------------------------------------------------- helpers
EndsWith(path, suffix) == Len(path) > 0 /\ path[Len(path)] = suffix

Truthy(s) == s # ""

RestoreModel_fallback(path) ==
    IF EndsWith(path, ".nemo") THEN <<"MTEncDecModel", "restore_from">>
    ELSE <<"MTEncDecModel", "load_from_checkpoint">>

RestoreModel(path) ==
    IF EndsWith(path, ".nemo") THEN <<"MTEncDecModel", "restore_from">>
    ELSE IF EndsWith(path, ".ckpt") THEN <<"MTEncDecModel", "load_from_checkpoint">>
    ELSE Unbound

MakeDataset_swapped(twoside) ==
    IF twoside THEN "TarredOneSideTranslationDataset" ELSE "TarredTranslationDataset"

MakeDataset(twoside) ==
    IF twoside THEN "TarredTranslationDataset" ELSE "TarredOneSideTranslationDataset"

BatchLen(rank, b) == ((rank + b) % MaxBatchSize) + 1

Tensor(name, n) == [name |-> name, len |-> n]

LoaderBatch(ds, rank, b) ==
    IF ds = "TarredTranslationDataset"
    THEN <<Tensor("src_ids", BatchLen(rank, b)), Tensor("src_mask", BatchLen(rank, b)),
           Tensor("tgt_ids", BatchLen(rank, b)), Tensor("tgt_mask", BatchLen(rank, b)),
           Tensor("labels", BatchLen(rank, b))>>
    ELSE <<Tensor("src_ids", BatchLen(rank, b)), Tensor("src_mask", BatchLen(rank, b))>>

UnpackArity(twoside) == IF twoside THEN 5 ELSE 2

ResultDir_shared(a, rank) == <<a.result_dir, "rank">>

ResultDir(a, rank) == <<a.result_dir, "rank" \o ToString(rank)>>

OriginalsFileName(a, rank) == Append(ResultDir(a, rank), "originals.txt")

TranslationsFileName(a, rank) == Append(ResultDir(a, rank), "translations.txt")

TargetDetokenizer(a) ==
    IF a.target_lang # "zh" THEN <<"MosesDetokenizer", a.target_lang>>
    ELSE IF a.target_lang = "zh" THEN <<"PanguJiebaDetokenizer">>
    ELSE Unbound

SourceDetokenizer_target(a) ==
    IF a.target_lang # "zh" THEN <<"MosesDetokenizer", a.target_lang>>
    ELSE <<"PanguJiebaDetokenizer">>

SourceDetokenizer(a) ==
    IF a.source_lang # "zh" THEN <<"MosesDetokenizer", a.source_lang>>
    ELSE IF a.source_lang = "zh" THEN <<"PanguJiebaDetokenizer">>
    ELSE Unbound

SpDetokenizer_source(a) ==
    IF a.source_lang = "ja" THEN <<"SentencePieceDetokenizer">> ELSE Unbound

SpDetokenizer(a) ==
    IF Truthy(a.target_lang) \/ a.source_lang = "ja"
    THEN <<"SentencePieceDetokenizer">> ELSE Unbound

TargetNeedsSp(a) == a.target_lang = "ja"

SourceNeedsSp(a) == a.target_lang = "ja"

LogDue_after(b) == (b + 1) % LogEvery = 0

LogDue(b) == b % LogEvery = 0

CountSentences_one(n, ids) == n + 1

CountSentences(n, ids) == n + ids.len

Forward(ids, mask, tgt, tgt_mask) == Tensor("translations", ids.len)

GroupReady_any(arrived, n) == Cardinality(arrived) >= 1

GroupReady(arrived, n) == Cardinality(arrived) = n

Line(ids, tokenizer, sp, detok) ==
    [ids |-> ids, tokenizer |-> tokenizer, sp |-> sp, detok |-> detok]

Write(fs, path, line, n) ==
    [fs EXCEPT ![path] = @ (+) (line :> n)]

OpenW(fs, paths) ==
    [p \in (DOMAIN fs) \cup paths |-> IF p \in paths THEN EmptyBag ELSE fs[p]]

Opener(ob, paths, rank) ==
    [p \in (DOMAIN ob) \cup paths |->
        (IF p \in DOMAIN ob THEN ob[p] ELSE {}) \cup (IF p \in paths THEN {rank} ELSE {})]

Arrived == {q \in Ranks : pc[q] \notin {"none", "spawned"}}

\* ------------------------------------------------------------------ init
ArgsOf(m, two, sl, tl) ==
    [model |-> m, twoside |-> two, result_dir |-> "out", source_lang |-> sl, target_lang |-> tl]

InitState ==
    /\ main = "start"
    /\ pc = [r \in AllRanks |-> "none"]
    /\ group = {}
    /\ model = [r \in AllRanks |-> Unbound]
    /\ dataset = [r \in AllRanks |-> "unbound"]
    /\ dirs = {}
    /\ files = <<>>
    /\ openedBy = <<>>
    /\ of = [r \in AllRanks |-> Closed]
    /\ tf = [r \in AllRanks |-> Closed]
    /\ batch_idx = [r \in AllRanks |-> 0]
    /\ num_translated_sentences = [r \in AllRanks |-> 0]
    /\ unpacked = [r \in AllRanks |-> 0]
    /\ src_ids = [r \in AllRanks |-> Tensor("none", 0)]
    /\ call = [r \in AllRanks |-> <<>>]
    /\ translations = [r \in AllRanks |-> Tensor("none", 0)]
    /\ target_detokenizer = [r \in AllRanks |-> Unbound]
    /\ source_detokenizer = [r \in AllRanks |-> Unbound]
    /\ sp_detokenizer = [r \in AllRanks |-> Unbound]
    /\ logs = {}
    /\ error = [r \in AllRanks |-> "none"]

\* A job on 1..MaxWorld devices, over every model path, dataset kind and language pair.
Init ==
    /\ InitState
    /\ world_size \in 1..MaxWorld
    /\ \E m \in ModelPaths, two \in BOOLEAN, sl \in Langs, tl \in Langs :
           args = ArgsOf(m, two, sl, tl)
    /\ shard_limit = [r \in AllRanks |-> MaxBatches]

\* The same job with one language pair: the codes play no part in the scheduling.
InitLive ==
    /\ InitState
    /\ world_size \in 1..MaxWorld
    /\ \E m \in ModelPaths, two \in BOOLEAN : args = ArgsOf(m, two, "en", "de")
    /\ shard_limit = [r \in AllRanks |-> MaxBatches]

\* A job whose rank 0 has a shard long enough to pass a logging period.
InitLog ==
    /\ InitState
    /\ world_size = MaxWorld
    /\ \E m \in ModelPaths : args = ArgsOf(m, FALSE, "en", "de")
    /\ shard_limit = [r \in AllRanks |-> IF r = 0 THEN LogBatches ELSE 1]

\* ------------------------------------------------------------------ main
\* mp.spawn(translate, args=(world_size, args), nprocs=world_size, join=True)
MainSpawn ==
    /\ main = "start"
    /\ main' = "joining"
    /\ pc' = [r \in AllRanks |-> IF r \in Ranks THEN "spawned" ELSE "none"]
    /\ UNCHANGED <<world_size, args, shard_limit, group, model, dataset, dirs, files,
                   openedBy, of, tf, batch_idx, num_translated_sentences, unpacked, src_ids,
                   call, translations, target_detokenizer, source_detokenizer,
                   sp_detokenizer, logs, error>>

MainJoin ==
    /\ main = "joining"
    /\ \A r \in Ranks : pc[r] = "done"
    /\ main' = "returned"
    /\ UNCHANGED <<world_size, args, shard_limit, pc, group, model, dataset, dirs, files,
                   openedBy, of, tf, batch_idx, num_translated_sentences, unpacked, src_ids,
                   call, translations, target_detokenizer, source_detokenizer,
                   sp_detokenizer, logs, error>>

MainRaise ==
    /\ main = "joining"
    /\ \E r \in Ranks : pc[r] = "failed"
    /\ main' = "raised"
    /\ pc' = [r \in AllRanks |->
                IF r \in Ranks /\ pc[r] \notin {"done", "failed"} THEN "killed" ELSE pc[r]]
    /\ UNCHANGED <<world_size, args, shard_limit, group, model, dataset, dirs, files,
                   openedBy, of, tf, batch_idx, num_translated_sentences, unpacked, src_ids,
                   call, translations, target_detokenizer, source_detokenizer,
                   sp_detokenizer, logs, error>>

\* ------------------------------------------------------------- translate
\* setup(): the call of dist.init_process_group
Setup(r) ==
    /\ pc[r] = "spawned"
    /\ pc' = [pc EXCEPT ![r] = "rendezvous"]
    /\ UNCHANGED <<main, world_size, args, shard_limit, group, model, dataset, dirs, files,
                   openedBy, of, tf, batch_idx, num_translated_sentences, unpacked, src_ids,
                   call, translations, target_detokenizer, source_detokenizer,
                   sp_detokenizer, logs, error>>

\* setup(): dist.init_process_group returns
InitDone(r) ==
    /\ pc[r] = "rendezvous"
    /\ GroupReady(Arrived, world_size)
    /\ pc' = [pc EXCEPT ![r] = "joined"]
    /\ group' = group \cup {r}
    /\ UNCHANGED <<main, world_size, args, shard_limit, model, dataset, dirs, files,
                   openedBy, of, tf, batch_idx, num_translated_sentences, unpacked, src_ids,
                   call, translations, target_detokenizer, source_detokenizer,
                   sp_detokenizer, logs, error>>

\* the extension check
LoadModel(r) ==
    /\ pc[r] = "joined"
    /\ model' = [model EXCEPT ![r] = RestoreModel(args.model)]
    /\ pc' = [pc EXCEPT ![r] = "loaded"]
    /\ UNCHANGED <<main, world_size, args, shard_limit, group, dataset, dirs, files,
                   openedBy, of, tf, batch_idx, num_translated_sentences, unpacked, src_ids,
                   call, translations, target_detokenizer, source_detokenizer,
                   sp_detokenizer, logs, error>>

\* model.replace_beam_with_sampling, DDP(model), the dataset and the loader
UseModel(r) ==
    /\ pc[r] = "loaded"
    /\ IF model[r] = Unbound
       THEN /\ pc' = [pc EXCEPT ![r] = "failed"]
            /\ error' = [error EXCEPT ![r] = "UnboundLocalError: model"]
            /\ UNCHANGED dataset
       ELSE /\ pc' = [pc EXCEPT ![r] = "dataset"]
            /\ dataset' = [dataset EXCEPT ![r] = MakeDataset(args.twoside)]
            /\ UNCHANGED error
    /\ UNCHANGED <<main, world_size, args, shard_limit, group, model, dirs, files,
                   openedBy, of, tf, batch_idx, num_translated_sentences, unpacked, src_ids,
                   call, translations, target_detokenizer, source_detokenizer,
                   sp_detokenizer, logs>>

\* makedirs, the counter, the detokenizers, and the two open(..., 'w')
Prepare(r) ==
    /\ pc[r] = "dataset"
    /\ dirs' = dirs \cup {ResultDir(args, r)}
    /\ num_translated_sentences' = [num_translated_sentences EXCEPT ![r] = 0]
    /\ target_detokenizer' = [target_detokenizer EXCEPT ![r] = TargetDetokenizer(args)]
    /\ sp_detokenizer' = [sp_detokenizer EXCEPT ![r] = SpDetokenizer(args)]
    /\ source_detokenizer' = [source_detokenizer EXCEPT ![r] = SourceDetokenizer(args)]
    /\ LET paths == {OriginalsFileName(args, r), TranslationsFileName(args, r)}
       IN  /\ files' = OpenW(files, paths)
           /\ openedBy' = Opener(openedBy, paths, r)
    /\ of' = [of EXCEPT ![r] = OriginalsFileName(args, r)]
    /\ tf' = [tf EXCEPT ![r] = TranslationsFileName(args, r)]
    /\ pc' = [pc EXCEPT ![r] = "loop"]
    /\ UNCHANGED <<main, world_size, args, shard_limit, group, model, dataset, batch_idx,
                   unpacked, src_ids, call, translations, logs, error>>

\* one iteration up to the forward pass: fetch, unpack, log, count, ddp_model(...)
NextBatch(r) ==
    /\ pc[r] = "loop"
    /\ batch_idx[r] < shard_limit[r]
    /\ LET b == batch_idx[r]
           batch == LoaderBatch(dataset[r], r, b)
       IN  IF Len(batch) # UnpackArity(args.twoside)
           THEN /\ pc' = [pc EXCEPT ![r] = "failed"]
                /\ error' = [error EXCEPT ![r] = "ValueError: unpack"]
                /\ UNCHANGED <<batch_idx, unpacked, src_ids, call, translations, logs,
                               num_translated_sentences>>
           ELSE /\ unpacked' = [unpacked EXCEPT ![r] = UnpackArity(args.twoside)]
                /\ src_ids' = [src_ids EXCEPT ![r] = batch[1]]
                /\ logs' = IF LogDue(b)
                           THEN logs \cup {[batch_idx |-> b,
                                            sentences |-> num_translated_sentences[r],
                                            rank |-> r]}
                           ELSE logs
                /\ num_translated_sentences' =
                       [num_translated_sentences EXCEPT ![r] = CountSentences(@, batch[1])]
                /\ call' = [call EXCEPT ![r] = <<batch[1].name, batch[2].name, "None", "None">>]
                /\ translations' = [translations EXCEPT ![r] = Forward(batch[1], batch[2], "None", "None")]
                /\ batch_idx' = [batch_idx EXCEPT ![r] = b + 1]
                /\ pc' = [pc EXCEPT ![r] = "write_t"]
                /\ UNCHANGED error
    /\ UNCHANGED <<main, world_size, args, shard_limit, group, model, dataset, dirs, files,
                   openedBy, of, tf, target_detokenizer, source_detokenizer, sp_detokenizer>>

\* for t in translations: ... tf.write
WriteTranslations(r) ==
    /\ pc[r] = "write_t"
    /\ IF TargetNeedsSp(args) /\ sp_detokenizer[r] = Unbound
       THEN /\ pc' = [pc EXCEPT ![r] = "failed"]
            /\ error' = [error EXCEPT ![r] = "UnboundLocalError: sp_detokenizer"]
            /\ UNCHANGED files
       ELSE /\ files' = Write(files, tf[r],
                              Line(translations[r].name, "decoder_tokenizer",
                                   TargetNeedsSp(args), target_detokenizer[r]),
                              translations[r].len)
            /\ pc' = [pc EXCEPT ![r] = "write_o"]
            /\ UNCHANGED error
    /\ UNCHANGED <<main, world_size, args, shard_limit, group, model, dataset, dirs,
                   openedBy, of, tf, batch_idx, num_translated_sentences, unpacked, src_ids,
                   call, translations, target_detokenizer, source_detokenizer,
                   sp_detokenizer, logs>>

\* for o in src_ids: ... of.write
WriteOriginals(r) ==
    /\ pc[r] = "write_o"
    /\ IF SourceNeedsSp(args) /\ sp_detokenizer[r] = Unbound
       THEN /\ pc' = [pc EXCEPT ![r] = "failed"]
            /\ error' = [error EXCEPT ![r] = "UnboundLocalError: sp_detokenizer"]
            /\ UNCHANGED files
       ELSE /\ files' = Write(files, of[r],
                              Line(src_ids[r].name, "encoder_tokenizer",
                                   SourceNeedsSp(args), source_detokenizer[r]),
                              src_ids[r].len)
            /\ pc' = [pc EXCEPT ![r] = "loop"]
            /\ UNCHANGED error
    /\ UNCHANGED <<main, world_size, args, shard_limit, group, model, dataset, dirs,
                   openedBy, of, tf, batch_idx, num_translated_sentences, unpacked, src_ids,
                   call, translations, target_detokenizer, source_detokenizer,
                   sp_detokenizer, logs>>

\* the loader is exhausted: the with block closes both files
EndLoop(r) ==
    /\ pc[r] = "loop"
    /\ of' = [of EXCEPT ![r] = Closed]
    /\ tf' = [tf EXCEPT ![r] = Closed]
    /\ pc' = [pc EXCEPT ![r] = "closed"]
    /\ UNCHANGED <<main, world_size, args, shard_limit, group, model, dataset, dirs, files,
                   openedBy, batch_idx, num_translated_sentences, unpacked, src_ids,
                   call, translations, target_detokenizer, source_detokenizer,
                   sp_detokenizer, logs, error>>

\* cleanup(): dist.destroy_process_group
Cleanup(r) ==
    /\ pc[r] = "closed"
    /\ group' = group \ {r}
    /\ pc' = [pc EXCEPT ![r] = "done"]
    /\ UNCHANGED <<main, world_size, args, shard_limit, model, dataset, dirs, files,
                   openedBy, of, tf, batch_idx, num_translated_sentences, unpacked, src_ids,
                   call, translations, target_detokenizer, source_detokenizer,
                   sp_detokenizer, logs, error>>

Worker(r) ==
    \/ Setup(r)
    \/ InitDone(r)
    \/ LoadModel(r)
    \/ UseModel(r)
    \/ Prepare(r)
    \/ NextBatch(r)
    \/ WriteTranslations(r)
    \/ WriteOriginals(r)
    \/ EndLoop(r)
    \/ Cleanup(r)

Main == MainSpawn \/ MainJoin \/ MainRaise

Next ==
    \/ MainSpawn
    \/ MainJoin
    \/ MainRaise
    \/ \E r \in AllRanks : Setup(r)
    \/ \E r \in AllRanks : InitDone(r)
    \/ \E r \in AllRanks : LoadModel(r)
    \/ \E r \in AllRanks : UseModel(r)
    \/ \E r \in AllRanks : Prepare(r)
    \/ \E r \in AllRanks : NextBatch(r)
    \/ \E r \in AllRanks : WriteTranslations(r)
    \/ \E r \in AllRanks : WriteOriginals(r)
    \/ \E r \in AllRanks : EndLoop(r)
    \/ \E r \in AllRanks : Cleanup(r)

Spec == Init /\ [][Next]_vars

SpecLog == InitLog /\ [][Next]_vars

\* Every spawned process keeps running, and main keeps waiting in join.
Fairness == WF_vars(Main) /\ \A r \in AllRanks : WF_vars(Worker(r))

FairSpec == InitLive /\ [][Next]_vars /\ Fairness

\* ================================================================ claims
RankFile(r, name) == <<"out", "rank" \o ToString(r), name>>

LineCount(p) == IF p \in DOMAIN files THEN BagCardinality(files[p]) ELSE 0

RECURSIVE SumLens(_, _)
SumLens(r, n) == IF n = 0 THEN 0 ELSE SumLens(r, n - 1) + BatchLen(r, n - 1)

InLoop(r) == pc[r] \in {"loop", "write_t", "write_o"}

AtBatchBoundary(r) == pc[r] \in {"loop", "closed", "done"}

WrittenLines(ids) ==
    UNION {{l \in BagToSet(files[p]) : l.ids = ids} : p \in DOMAIN files}

BadExtension == ~EndsWith(args.model, ".nemo") /\ ~EndsWith(args.model, ".ckpt")

\* C1: for every rank, whenever it stands between two batches or has finished,
\* originals.txt and translations.txt of that rank hold the same number of lines,
\* and that number is num_translated_sentences, the examples of the batches processed.
C1_AlignedLineCounts ==
    \A r \in Ranks : AtBatchBoundary(r) =>
        /\ RankFile(r, "originals.txt") \in DOMAIN files
        /\ RankFile(r, "translations.txt") \in DOMAIN files
        /\ LineCount(RankFile(r, "originals.txt")) = num_translated_sentences[r]
        /\ LineCount(RankFile(r, "translations.txt")) = num_translated_sentences[r]
        /\ num_translated_sentences[r] = SumLens(r, batch_idx[r])

C1_Witness ==
    \E r \in Ranks :
        /\ pc[r] = "done"
        /\ batch_idx[r] >= 2
        /\ LineCount(RankFile(r, "originals.txt")) >= 3
        /\ LineCount(RankFile(r, "translations.txt")) >= 3

\* C2: rank r opens and writes only result_dir/rank<r>/originals.txt and
\* result_dir/rank<r>/translations.txt, and no file is ever opened or written by
\* two distinct ranks.
C2_DisjointOutputs ==
    /\ DOMAIN files = DOMAIN openedBy
    /\ \A p \in DOMAIN openedBy : \A r \in openedBy[p] :
           /\ openedBy[p] = {r}
           /\ p \in {RankFile(r, "originals.txt"), RankFile(r, "translations.txt")}
    /\ \A r \in Ranks :
           /\ of[r] # Closed => of[r] = RankFile(r, "originals.txt")
           /\ tf[r] # Closed => tf[r] = RankFile(r, "translations.txt")
    /\ \A r \in Ranks, q \in Ranks :
           (r # q /\ of[r] # Closed /\ of[q] # Closed) =>
               {of[r], tf[r]} \cap {of[q], tf[q]} = {}

C2_Witness ==
    \E r \in Ranks, q \in Ranks :
        /\ r # q
        /\ pc[r] = "write_o" /\ pc[q] = "write_o"
        /\ LineCount(tf[r]) > 0 /\ LineCount(tf[q]) > 0

\* C3 (as claimed): every source line got the sub-word pass exactly when
\* source_lang is 'ja', every hypothesis line exactly when target_lang is 'ja'.
C3_SubwordPassPerSide ==
    /\ \A l \in WrittenLines("src_ids") : l.sp = (args.source_lang = "ja")
    /\ \A l \in WrittenLines("translations") : l.sp = (args.target_lang = "ja")

\* C4: inside and after the batch loop both detokenizers are bound, each chosen by
\* its own side's code alone: 'zh' gives the PanguJieba detokenizer, any other code
\* the Moses detokenizer for that code; every written line went through its side's.
C4_DetokenizerPerSide ==
    /\ \A r \in Ranks : (InLoop(r) \/ pc[r] \in {"closed", "done"}) =>
           /\ source_detokenizer[r] =
                  (IF args.source_lang = "zh" THEN <<"PanguJiebaDetokenizer">>
                   ELSE <<"MosesDetokenizer", args.source_lang>>)
           /\ target_detokenizer[r] =
                  (IF args.target_lang = "zh" THEN <<"PanguJiebaDetokenizer">>
                   ELSE <<"MosesDetokenizer", args.target_lang>>)
    /\ \A l \in WrittenLines("src_ids") :
           l.detok = (IF args.source_lang = "zh" THEN <<"PanguJiebaDetokenizer">>
                      ELSE <<"MosesDetokenizer", args.source_lang>>)
    /\ \A l \in WrittenLines("translations") :
           l.detok = (IF args.target_lang = "zh" THEN <<"PanguJiebaDetokenizer">>
                      ELSE <<"MosesDetokenizer", args.target_lang>>)

C4_Witness ==
    /\ args.source_lang = "zh"
    /\ args.target_lang = "en"
    /\ WrittenLines("src_ids") # {}
    /\ WrittenLines("translations") # {}

\* C5 (as claimed): initialization and teardown are both barriers: a worker past
\* init_process_group implies every worker has called it, and a worker past
\* destroy_process_group implies every worker has reached it.
C5_BothBarriers ==
    /\ \A r \in Ranks : pc[r] \notin {"none", "spawned", "rendezvous"} =>
           \A q \in Ranks : pc[q] \notin {"none", "spawned"}
    /\ \A r \in Ranks : pc[r] = "done" =>
           \A q \in Ranks : pc[q] \in {"closed", "done"}

\* C5 (amended): initialization is a barrier over all world_size workers: a worker
\* past init_process_group implies every worker has called it.
C5_InitBarrier ==
    \A r \in Ranks : pc[r] \notin {"none", "spawned", "rendezvous"} =>
        \A q \in Ranks : pc[q] \notin {"none", "spawned"}

C5_Witness ==
    /\ world_size >= 2
    /\ \E r \in Ranks, q \in Ranks : r # q /\ pc[r] = "joined" /\ pc[q] = "rendezvous"

\* C6 (as claimed): with finite shards and no library call raising, the job
\* eventually completes: main returns, every rank's worker has exhausted its loader,
\* closed both files and released the process group.
C6_JobCompletes ==
    <>(/\ main = "returned"
       /\ \A r \in Ranks : /\ pc[r] = "done"
                           /\ of[r] = Closed /\ tf[r] = Closed
                           /\ r \notin group)

\* C7: with a model path ending in neither '.nemo' nor '.ckpt' the extension check
\* raises nothing and leaves model unbound; a worker fails only at the first use of
\* the model, as a member of the process group it never releases, before any
\* directory or file is created; main never returns normally and eventually raises.
C7_UnboundModelSafety ==
    BadExtension =>
        /\ dirs = {} /\ DOMAIN files = {}
        /\ main # "returned"
        /\ \A r \in Ranks :
               /\ model[r] = Unbound
               /\ pc[r] \in {"none", "spawned", "rendezvous", "joined", "loaded",
                             "failed", "killed"}
               /\ pc[r] = "loaded" => error[r] = "none"
               /\ pc[r] = "failed" =>
                      r \in group /\ error[r] = "UnboundLocalError: model"

C7_UnboundModelFails ==
    /\ []C7_UnboundModelSafety
    /\ BadExtension ~> (main = "raised")

C7_Witness ==
    /\ BadExtension
    /\ main = "raised"
    /\ \E r \in Ranks : pc[r] = "failed" /\ r \in group

\* C8: a rank logs at batch index b exactly when b is a multiple of 100, so N
\* fetched batches give ceil(N/100) logs; each log carries the rank and the
\* sentences of the batches before b; a step changes the counters of one rank only,
\* the one fetching a batch.
C8_ExpectedLogs(r) ==
    {[batch_idx |-> b, sentences |-> SumLens(r, b), rank |-> r] :
        b \in {c \in 0..(batch_idx[r] - 1) : c % 100 = 0}}

C8_LogState ==
    /\ logs = UNION {C8_ExpectedLogs(r) : r \in Ranks}
    /\ \A r \in Ranks :
           Cardinality({l \in logs : l.rank = r}) = (batch_idx[r] + 99) \div 100

C8_OwnCounters ==
    \A r \in AllRanks :
        (batch_idx'[r] # batch_idx[r]
            \/ num_translated_sentences'[r] # num_translated_sentences[r]) =>
        /\ pc[r] = "loop" /\ pc'[r] = "write_t"
        /\ \A q \in AllRanks \ {r} :
               /\ batch_idx'[q] = batch_idx[q]
               /\ num_translated_sentences'[q] = num_translated_sentences[q]

C8_ProgressLogs == []C8_LogState /\ [][C8_OwnCounters]_vars

C8_Witness ==
    /\ [batch_idx |-> 100, sentences |-> SumLens(0, 100), rank |-> 0] \in logs
    /\ [batch_idx |-> 0, sentences |-> 0, rank |-> 1] \in logs
    /\ batch_idx[0] = 101
    /\ Cardinality({l \in logs : l.rank = 0}) = 2

\* C9: the dataset kind follows --twoside, each batch is unpacked into two tensors
\* without it and five with it, the unpacking never fails, the model is called with
\* (src_ids, src_mask, None, None), and source lines come from src_ids.
C9_TwosideUnpacking ==
    /\ \A r \in Ranks :
           /\ error[r] # "ValueError: unpack"
           /\ dataset[r] # "unbound" =>
                  dataset[r] = (IF args.twoside THEN "TarredTranslationDataset"
                                ELSE "TarredOneSideTranslationDataset")
           /\ batch_idx[r] > 0 =>
                  /\ unpacked[r] = (IF args.twoside THEN 5 ELSE 2)
                  /\ call[r] = <<"src_ids", "src_mask", "None", "None">>
                  /\ src_ids[r].name = "src_ids"
           /\ (batch_idx[r] = 0 /\ pc[r] # "failed") => call[r] = <<>>
    /\ \A r \in Ranks : RankFile(r, "originals.txt") \in DOMAIN files =>
           \A l \in BagToSet(files[RankFile(r, "originals.txt")]) : l.ids = "src_ids"

C9_Witness ==
    /\ args.twoside
    /\ \E r \in Ranks :
           /\ unpacked[r] = 5
           /\ pc[r] = "loop"
           /\ LineCount(RankFile(r, "originals.txt")) > 0

\* C10: for every pair of language codes, sp_detokenizer is bound wherever the batch
\* loop uses it: no worker ends with an unbound sp_detokenizer, and a worker that is
\* about to detokenize with target_lang 'ja' holds a bound one.
C10_SpDetokenizerBound ==
    \A r \in Ranks :
        /\ error[r] # "UnboundLocalError: sp_detokenizer"
        /\ (pc[r] \in {"write_t", "write_o"} /\ args.target_lang = "ja") =>
               sp_detokenizer[r] = <<"SentencePieceDetokenizer">>

C10_Witness ==
    /\ args.target_lang = "ja"
    /\ args.source_lang = ""
    /\ \E l \in WrittenLines("translations") : l.sp
    /\ \E l \in WrittenLines("src_ids") : l.sp

====
